---- MODULE Spec2Model ----
(***************************************************************************)
(* holo-chan: the streaming orchestration pipeline.                        *)
(*   - run_agent              (src/holo_chan/agent.py)                     *)
(*   - _process_transcriptions / main  (src/holo_chan/main.py)             *)
(*   - tts.speak              (src/holo_chan/tts.py)                       *)
(*   - DiscordSpeaker.speak   (src/holo_chan/integrations/discord/output.py)*)
(* Texts are sequences of one-character strings.  A reply of the language  *)
(* model is a record describing the reply text by the shape json.loads and *)
(* parse_tool_call see in it.                                              *)
(***************************************************************************)
EXTENDS Integers, Sequences, FiniteSets, TLC

VARIABLES
    \* main / _process_transcriptions
    incoming,      \* asyncio.Queue[str | None] between main and the processor
    produced,      \* number of transcriptions main has put on `incoming`
    buffer,        \* aggregator buffer (text)
    pending,       \* completed sentences not yet dispatched
    in_flight,     \* 0 for None, else the index in `tasks` of the in-flight task
    finished,      \* the None marker has been received
    loopPc,        \* "running" | "returned" | "raised" ("none": no loop)
    returned,      \* the value _process_transcriptions returned
    emitted,       \* every sentence ever appended to `pending` (history)
    messages,      \* the conversation list (one list object, shared by reference)
    \* run_agent invocations (asyncio tasks), in creation order
    tasks,
    toolBudget,    \* non-stop tool-call replies the language model may still give
    faultBudget,   \* of those, the ones naming an unknown tool or wrong arguments
    \* output sink
    sinkKind,      \* "local" (tts.speak) | "discord" (DiscordSpeaker.speak)
    calls,         \* speak() calls, in call order
    is_speaking,   \* tts.is_speaking
    reqOut,        \* the REQ socket has sent a request whose reply it has not received
    playing,       \* calls whose audio is playing on the device / voice client
    watchers,      \* tts._watch tasks not yet finished
    played,        \* calls whose playback has completed
    driverLeft,    \* speak calls the stand-alone sink driver may still issue
    \* input side
    bridge,        \* the STT bridge (a record, see below)
    taken,         \* the transcriptions the dispatch loop has taken, in order
    conv           \* the voice sink's conversion of one PCM buffer (a record, see below)

loopVars ==
    <<incoming, produced, buffer, pending, in_flight, finished, loopPc, returned,
      emitted, taken>>
agentVars == <<messages, tasks, toolBudget, faultBudget>>
sinkVars == <<sinkKind, calls, is_speaking, reqOut, playing, watchers, played>>
vars == <<loopVars, agentVars, sinkVars, driverLeft, bridge, conv>>
\* what the sink's steps, and run_agent's, leave alone
sinkFrame == <<loopVars, agentVars, driverLeft, bridge, conv>>
agentFrame == <<loopVars, driverLeft, bridge, conv>>
\* what the bridge's steps leave alone
bridgeFrame == <<loopVars, agentVars, sinkVars, driverLeft, conv>>

----------------------------------------------------------------------------
(* Bounds of the model *)

\* transcriptions main receives from the input source before it ends
MaxFragments == 2
\* non-stop tool-call replies the language model gives during one pipeline run
MaxToolReplies == 1
\* of those, the ones that name an unknown tool or pass wrong arguments
MaxToolFaults == 2
\* speak calls the stand-alone sink driver issues
MaxSpeaks == 3
\* start() calls on the bridge
MaxStarts == 2
\* reads of the bridge's socket that return data
MaxReceives == 2

(* Program constants *)
MAX_TURNS == 10

----------------------------------------------------------------------------
(* Texts *)

WS == {" "}
Boundary == {".", "!", "?", ",", ";", ":"}

RECURSIVE lstrip(_)
lstrip(s) == IF s # <<>> /\ Head(s) \in WS THEN lstrip(Tail(s)) ELSE s

RECURSIVE rstrip(_)
rstrip(s) ==
    IF s # <<>> /\ s[Len(s)] \in WS THEN rstrip(SubSeq(s, 1, Len(s) - 1)) ELSE s

\* str.strip()
strip(s) == rstrip(lstrip(s))

\* the join without its separator
RECURSIVE join_NoSeparator(_)
join_NoSeparator(l) ==
    IF l = <<>> THEN <<>> ELSE l[1] \o join_NoSeparator(Tail(l))

\* " ".join(list)
RECURSIVE join(_)
join(l) ==
    IF l = <<>> THEN <<>>
    ELSE IF Len(l) = 1 THEN l[1]
    ELSE l[1] \o <<" ">> \o join(Tail(l))

----------------------------------------------------------------------------
(* agent.py: messages, tool registry, parse_tool_call, call_tool *)

build_message(role, content) == [role |-> role, content |-> content]

\* The registered tools and the keyword arguments each handler accepts.
TOOLS == {"wait_for_more", "done", "dance", "backflip"}

\* A tool name the model may put in a tool call: the registered names, an
\* unregistered one, and a JSON array (a list: not hashable).
ToolNames == TOOLS \cup {"nosuch", "LIST"}

\* The `arguments` member: absent, {}, {"dance": 1}, {"bogus": 1}, or a non-object.
ArgForms == {"absent", "empty", "dance", "bogus", "notdict"}

\* What the handler does with **args: its return value, or TypeError.
ToolFunc(name, args) ==
    CASE name \in {"wait_for_more", "done"} ->
            IF args = "empty" THEN "None" ELSE "TypeError"
      [] name = "dance" ->
            IF args = "dance" THEN "Performing dance number 1" ELSE "TypeError"
      [] name = "backflip" ->
            IF args = "empty" THEN "Performing backflip" ELSE "TypeError"

\* call_tool: the result string, or "RAISE" when the call itself raises
\* (TOOLS.get of an unhashable name is outside the try block).
call_tool(name, args) ==
    IF name = "LIST" THEN "RAISE"
    ELSE IF name \notin TOOLS THEN "Error: unknown tool"
    ELSE IF ToolFunc(name, args) = "TypeError" THEN "Error: wrong arguments"
    ELSE ToolFunc(name, args)

(* A reply of the completion function.
   form: "none"       the value None
         "text"       text that json.loads rejects
         "json"       valid JSON that is not an object holding "tool_calls"
         "badcall"    {"tool_calls": X}, X not an object or without "name"
         "call"       {"tool_calls": {"name": name, "arguments": args}}
   body: the text is empty apart from whitespace (FALSE) or not (TRUE)
   pad : the text has leading/trailing whitespace                          *)
Reply(form, body, pad, name, args) ==
    [form |-> form, body |-> body, pad |-> pad, name |-> name, args |-> args]

NoneReply == Reply("none", FALSE, FALSE, "-", "-")
\* history values: no completion call has ended yet; the call raised
NoReplyYet == Reply("-", FALSE, FALSE, "-", "-")
CompletionFailed == Reply("raised", FALSE, FALSE, "-", "-")
EmptyText == Reply("text", FALSE, FALSE, "-", "-")

\* the normalisation without .strip()
Normalize_NoStrip(r) == IF r.form = "none" THEN EmptyText ELSE r

\* assistant_msg normalisation of run_agent: None -> "", else .strip()
Normalize(r) ==
    IF r.form = "none" THEN EmptyText
    ELSE [r EXCEPT !.pad = FALSE]

\* the emptiness test never true
IsEmpty_Never(m) == FALSE

\* `not assistant_msg`
IsEmpty(m) == m.form = "text" /\ ~m.body

\* parse_tool_call: <<name, args>> or "None"
parse_tool_call(m) ==
    IF m.form # "call" THEN "None"
    ELSE IF m.args = "notdict" THEN "None"
    ELSE <<m.name, IF m.args = "absent" THEN "empty" ELSE m.args>>

\* the stop check knowing only `done`
IsStopTool_OnlyDone(name) == name = "done"

\* `tool_name in ("wait_for_more", "done")` (line 223)
IsStopTool(name) == name \in {"wait_for_more", "done"}

----------------------------------------------------------------------------
(* Output sinks.  A speak call is [pc, text, by]: `by` is the run_agent task
   awaiting it (0: the stand-alone driver).
   pc: "guard"  tts.speak at `while is_speaking`
       "getvc"  DiscordSpeaker.speak awaiting get_voice_client()
       "recv"   request sent, awaiting socket.recv_multipart()
       "wait"   DiscordSpeaker.speak at `while voice_client.is_playing()`
       "returned" | "raised"
   sent: "no" | "yes" | "refused": the call has sent its request, or tried to
       while the reply to another request was outstanding (history)        *)

NewCall(text, by) ==
    [pc |-> IF sinkKind = "local" THEN "guard" ELSE "getvc", text |-> text,
     by |-> by, sent |-> "no"]

SetCall(c, pc) == [calls EXCEPT ![c].pc = pc]

\* socket.send_unicode on the REQ socket: a REQ socket refuses a second send
\* before the reply to the first has been received.
SendRequest(c) ==
    IF reqOut
    THEN /\ calls' = [calls EXCEPT ![c].pc = "raised", ![c].sent = "refused"]
         /\ UNCHANGED reqOut
    ELSE /\ calls' = [calls EXCEPT ![c].pc = "recv", ![c].sent = "yes"]
         /\ reqOut' = TRUE

\* tts.speak without its wait loop
LocalMayPass_NoWait == TRUE

\* `while is_speaking is True: sleep` of tts.speak
LocalMayPass == ~is_speaking

\* tts.speak, lines 47-52: leave the wait loop, set the flag, send the text.
LocalPassGuard(c) ==
    /\ sinkKind = "local"
    /\ calls[c].pc = "guard"
    /\ LocalMayPass
    /\ is_speaking' = TRUE
    /\ SendRequest(c)
    /\ UNCHANGED <<sinkKind, playing, watchers, played, sinkFrame>>

\* tts.speak, lines 55-74: the reply arrives; play it and schedule _watch.
LocalRecvPlay(c) ==
    /\ sinkKind = "local"
    /\ calls[c].pc = "recv"
    /\ reqOut' = FALSE
    /\ calls' = SetCall(c, "returned")
    /\ playing' = playing \cup {c}
    /\ watchers' = watchers \cup {c}
    /\ UNCHANGED <<sinkKind, is_speaking, played, sinkFrame>>

\* tts.speak, lines 55-64: recv_multipart raises (the request stays outstanding),
\* the reply has not two parts, or sa.play_buffer raises.
LocalRecvFail(c) ==
    /\ sinkKind = "local"
    /\ calls[c].pc = "recv"
    /\ \E received \in BOOLEAN : reqOut' = ~received
    /\ calls' = SetCall(c, "raised")
    /\ UNCHANGED <<sinkKind, is_speaking, playing, watchers, played, sinkFrame>>

\* tts._watch: play_obj.wait_done() has returned.
Watch(c) ==
    /\ c \in watchers
    /\ c \notin playing
    /\ is_speaking' = FALSE
    /\ watchers' = watchers \ {c}
    /\ UNCHANGED <<sinkKind, calls, reqOut, playing, played, sinkFrame>>

\* The audio device or the voice client reaches the end of the audio.
PlaybackEnd(c) ==
    /\ c \in playing
    /\ playing' = playing \ {c}
    /\ played' = played \cup {c}
    /\ UNCHANGED <<sinkKind, calls, is_speaking, reqOut, watchers, sinkFrame>>

\* DiscordSpeaker.speak, lines 90-91 and synthesize line 64.
DiscordSynthesize(c) ==
    /\ sinkKind = "discord"
    /\ calls[c].pc = "getvc"
    /\ SendRequest(c)
    /\ UNCHANGED <<sinkKind, is_speaking, playing, watchers, played, sinkFrame>>

\* session.get_voice_client raises (not a voice channel, connect failure).
DiscordGetVoiceClientFail(c) ==
    /\ sinkKind = "discord"
    /\ calls[c].pc = "getvc"
    /\ calls' = SetCall(c, "raised")
    /\ UNCHANGED <<sinkKind, is_speaking, reqOut, playing, watchers, played, sinkFrame>>

\* synthesize lines 65-67 and speak lines 92-94: the reply arrives; empty audio
\* makes speak return without playing.
DiscordRecv(c) ==
    /\ sinkKind = "discord"
    /\ calls[c].pc = "recv"
    /\ reqOut' = FALSE
    /\ \E empty \in BOOLEAN :
          calls' = SetCall(c, IF empty THEN "returned" ELSE "wait")
    /\ UNCHANGED <<sinkKind, is_speaking, playing, watchers, played, sinkFrame>>

\* synthesize line 65-66: recv_multipart raises or the reply has not two parts.
DiscordRecvFail(c) ==
    /\ sinkKind = "discord"
    /\ calls[c].pc = "recv"
    /\ \E received \in BOOLEAN : reqOut' = ~received
    /\ calls' = SetCall(c, "raised")
    /\ UNCHANGED <<sinkKind, is_speaking, playing, watchers, played, sinkFrame>>

\* `while voice_client.is_playing(): sleep` of DiscordSpeaker.speak
DiscordMayPlay == playing = {}

\* DiscordSpeaker.speak, lines 95-98.
DiscordPlay(c) ==
    /\ sinkKind = "discord"
    /\ calls[c].pc = "wait"
    /\ DiscordMayPlay
    /\ playing' = playing \cup {c}
    /\ calls' = SetCall(c, "returned")
    /\ UNCHANGED <<sinkKind, is_speaking, reqOut, watchers, played, sinkFrame>>

SinkInit ==
    /\ sinkKind \in {"local", "discord"}
    /\ calls = <<>>
    /\ is_speaking = FALSE
    /\ reqOut = FALSE
    /\ playing = {}
    /\ watchers = {}
    /\ played = {}

----------------------------------------------------------------------------
(* The STT bridge: _DiscordSTTBridge (integrations/discord/input.py) and
   STTListener (stt.py).  `bridge` is a record:
     kind        "discord" | "local"
     running     _running
     socket      "None" | "unconnected" | "open"   (_socket)
     stream      "None" | "active"                 (STTListener._stream)
     send, recv  the send and receive tasks ever created, in creation order;
                 the last of each is the one _send_task / _recv_task refers to;
                 each is "run" | "done" | "failed" | "cancelled"
     audio_queue, text_queue   the two queues
     consumer    "idle" | "iterating" | "ended": one transcriptions() iterator
     enqueued, yielded, connects, nstart, nrecv, op, lastRecv, lastSubmit
                 history: fragments ever put on text_queue, fragments yielded,
                 sockets connected, start() calls, reads that returned data,
                 the last call of start/stop and how the last read and the
                 last submit_audio ended                                     *)

DISCORD_AUDIO_MAXSIZE == 50
LOCAL_AUDIO_MAXSIZE == 20

AudioMaxsize(kind) ==
    IF kind = "discord" THEN DISCORD_AUDIO_MAXSIZE ELSE LOCAL_AUDIO_MAXSIZE

\* __init__
NewBridge(kind) ==
    [kind |-> kind, running |-> FALSE, socket |-> "None", stream |-> "None",
     send |-> <<>>, recv |-> <<>>, audio_queue |-> <<>>, text_queue |-> <<>>,
     consumer |-> "idle", enqueued |-> <<>>, yielded |-> <<>>, connects |-> 0,
     nstart |-> 0, nrecv |-> 0, op |-> "new", lastRecv |-> "-",
     lastSubmit |-> "-"]

\* str.split(" ")
RECURSIVE SplitOn(_, _, _)
SplitOn(s, cur, out) ==
    IF s = <<>> THEN Append(out, cur)
    ELSE IF Head(s) = " " THEN SplitOn(Tail(s), <<>>, Append(out, cur))
    ELSE SplitOn(Tail(s), Append(cur, Head(s)), out)

\* " ".join(data.decode().split(" ")[2:]).strip()
ParseLine(data) ==
    LET f == SplitOn(data, <<>>, <<>>)
    IN  strip(join(SubSeq(f, 3, Len(f))))

\* What the server sends: "<begin> <end> <text>"; the last line has no text.
ServerLines ==
    { <<"0", " ", "9", " ", "a">>,
      <<"0", " ", "9", " ", " ", "b", ".">>,
      <<"0", " ", "9", " ">> }

\* Task.cancel() followed by awaiting the task
CancelLast(ts) ==
    IF ts # <<>> /\ ts[Len(ts)] = "run"
    THEN [ts EXCEPT ![Len(ts)] = "cancelled"]
    ELSE ts

\* start() without its test of _running
StartIsNoop_Never(running) == FALSE

\* `if self._running: return` of start()
StartIsNoop(running) == running

\* start() raises: connect failed, the unconnected socket stays in _socket.
StartRaised(b) ==
    [b EXCEPT !.nstart = @ + 1, !.socket = "unconnected", !.op = "start_raised"]

\* start() connects, (local) opens the input stream and a new audio queue,
\* and creates the send and the receive task.
Started(b) ==
    [b EXCEPT !.nstart = @ + 1, !.socket = "open", !.connects = @ + 1,
              !.running = TRUE,
              !.stream = IF b.kind = "local" THEN "active" ELSE @,
              !.audio_queue = IF b.kind = "local" THEN <<>> ELSE @,
              !.send = Append(@, "run"), !.recv = Append(@, "run"),
              !.op = "start"]

\* start(): returns at once on a running bridge; else connects (and raises
\* when the connection fails).
BridgeStart ==
    /\ bridge.nstart < MaxStarts
    /\ \E ok \in BOOLEAN :
          bridge' = IF StartIsNoop(bridge.running)
                    THEN [bridge EXCEPT !.nstart = @ + 1]
                    ELSE IF ok THEN Started(bridge) ELSE StartRaised(bridge)
    /\ UNCHANGED bridgeFrame

\* stop(): returns at once when _running is false; else clears _running,
\* cancels the two tasks it refers to, stops the stream, closes the socket.
Stopped(b) ==
    IF ~b.running
    THEN [b EXCEPT !.op = "stop"]
    ELSE [b EXCEPT !.running = FALSE, !.send = CancelLast(@),
                   !.recv = CancelLast(@), !.stream = "None",
                   !.socket = "None", !.op = "stop"]

BridgeStop ==
    /\ bridge' = Stopped(bridge)
    /\ UNCHANGED bridgeFrame

\* `while self._running` at the head of a task's loop, after one pass
LoopHead(b) == IF b.running THEN "run" ELSE "done"

\* _receive_transcriptions: recv returns data; the text is queued when it is
\* not empty.
RecvData(i, data) ==
    /\ bridge.recv[i] = "run"
    /\ bridge.nrecv < MaxReceives
    /\ LET text == ParseLine(data)
       IN  bridge' =
             [bridge EXCEPT
                !.text_queue = IF text # <<>> THEN Append(@, text) ELSE @,
                !.enqueued = IF text # <<>> THEN Append(@, text) ELSE @,
                !.nrecv = @ + 1, !.lastRecv = "data",
                !.recv[i] = LoopHead(bridge)]
    /\ UNCHANGED bridgeFrame

\* _receive_transcriptions: recv returns no data, the server has closed the
\* connection.
RecvClosed(i) ==
    /\ bridge.recv[i] = "run"
    /\ bridge' = [bridge EXCEPT !.running = FALSE, !.recv[i] = "done",
                                !.lastRecv = "closed"]
    /\ UNCHANGED bridgeFrame

\* the read timeout handled as any other exception: `break`
RecvTimeout_AsError(i) ==
    /\ bridge.recv[i] = "run"
    /\ bridge' = [bridge EXCEPT !.recv[i] = "failed", !.lastRecv = "timeout"]
    /\ UNCHANGED bridgeFrame

\* _receive_transcriptions: the read times out (settimeout(0.5)).
RecvTimeout(i) ==
    /\ bridge.recv[i] = "run"
    /\ bridge' = [bridge EXCEPT !.recv[i] = LoopHead(bridge),
                                !.lastRecv = "timeout"]
    /\ UNCHANGED bridgeFrame

\* _receive_transcriptions: any other exception (reset connection, bytes that
\* do not decode): `break`.
RecvError(i) ==
    /\ bridge.recv[i] = "run"
    /\ bridge' = [bridge EXCEPT !.recv[i] = "failed", !.lastRecv = "error"]
    /\ UNCHANGED bridgeFrame

\* Queue.full()
IsFull_Never(q, maxsize) == FALSE

IsFull(q, maxsize) == Len(q) >= maxsize

\* submit_audio (Discord; the put runs on the event loop) and _audio_callback
\* (local; the active stream calls it).  A buffer offered to a full queue is
\* "b", any other is "a".
Submitted(b) ==
    LET pcm == IF Len(b.audio_queue) >= AudioMaxsize(b.kind) THEN "b" ELSE "a"
    IN  IF b.kind = "discord" /\ ~b.running
        THEN [b EXCEPT !.lastSubmit = "ignored"]
        ELSE IF IsFull(b.audio_queue, AudioMaxsize(b.kind))
        THEN [b EXCEPT !.lastSubmit = "dropped"]
        ELSE [b EXCEPT !.audio_queue = Append(@, pcm), !.lastSubmit = "queued"]

SubmitAudio ==
    /\ bridge.kind = "local" => bridge.stream = "active"
    /\ bridge' = Submitted(bridge)
    /\ UNCHANGED bridgeFrame

\* _send_audio: a chunk is taken from the queue and sendall returns, times
\* out (the chunk is lost, the loop goes on) or fails (`break`).
SendAudio(i, outcome) ==
    /\ bridge.send[i] = "run"
    /\ bridge.audio_queue # <<>>
    /\ bridge' = [bridge EXCEPT
                    !.audio_queue = Tail(@),
                    !.send[i] = IF outcome = "error" THEN "failed"
                                ELSE LoopHead(bridge)]
    /\ UNCHANGED bridgeFrame

\* transcriptions() without the test of the queue
MayEnd_IgnoresQueue(running, q) == ~running

\* the negation of `while self._running or not self._text_queue.empty()`
MayEnd(running, q) == ~running /\ q = <<>>

\* transcriptions() is called and iterated.
ConsumerBegin ==
    /\ bridge.consumer = "idle"
    /\ bridge' = [bridge EXCEPT !.consumer = "iterating"]
    /\ UNCHANGED bridgeFrame

\* transcriptions(): the queue gives a text, which is yielded.
ConsumerTake(b) ==
    [b EXCEPT !.text_queue = Tail(@),
              !.yielded = IF Head(b.text_queue) # <<>>
                          THEN Append(@, Head(b.text_queue)) ELSE @]

ConsumerYield ==
    /\ bridge.consumer = "iterating"
    /\ ~MayEnd(bridge.running, bridge.text_queue)
    /\ bridge.text_queue # <<>>
    /\ bridge' = ConsumerTake(bridge)
    /\ UNCHANGED bridgeFrame

\* transcriptions(): the loop test fails, the iterator ends.
ConsumerEnd ==
    /\ bridge.consumer = "iterating"
    /\ MayEnd(bridge.running, bridge.text_queue)
    /\ bridge' = [bridge EXCEPT !.consumer = "ended"]
    /\ UNCHANGED bridgeFrame

----------------------------------------------------------------------------
(* integrations/discord/input.py: the resampler and the voice sink.  A PCM
   buffer is the sequence of its signed 16-bit samples.  `conv` is a record:
     pcm   the buffer handed to _DiscordSTTSink.write
     out   the converted buffer
     done  write has run                                                    *)

MaxSamples == 7

\* sample values: silence, a value whose mean with silence is not whole, and
\* a negative one
SampleValues == {0, 1, -3}

PcmInputs == UNION {[1..n -> SampleValues] : n \in 0..MaxSamples}

NoConversion == [pcm |-> <<>>, out |-> <<>>, done |-> FALSE]

\* stereo.mean(axis=1).astype(np.int16): the mean of a frame, the cast
\* dropping the fraction (towards zero)
FrameMean(l, r) ==
    IF l + r >= 0 THEN (l + r) \div 2 ELSE -((-(l + r)) \div 2)

\* lines 127-132: an odd trailing sample is dropped, the samples are paired
\* into frames and each frame averaged
Mono(pcm) ==
    [f \in 1..(Len(pcm) \div 2) |-> FrameMean(pcm[2 * f - 1], pcm[2 * f])]

\* mono[::3]
EveryThird(mono) ==
    [k \in 1..((Len(mono) + 2) \div 3) |-> mono[3 * (k - 1) + 1]]

\* the decimation keeping whole groups of three frames only
_pcm_to_16k_mono_WholeGroups(pcm, sample_rate) ==
    IF sample_rate = 16000 THEN Mono(pcm)
    ELSE [k \in 1..(Len(Mono(pcm)) \div 3) |-> Mono(pcm)[3 * (k - 1) + 1]]

\* _pcm_to_16k_mono for the rates 16000 and 48000 (any other rate is
\* interpolated, lines 137-142, and is not used by the sink)
_pcm_to_16k_mono(pcm, sample_rate) ==
    IF sample_rate = 16000 THEN Mono(pcm) ELSE EveryThird(Mono(pcm))

\* _DiscordSTTSink.write for a user that is no bot, lines 155-170: the buffer
\* is converted at the default rate and, when not empty, submitted.
SinkWrite ==
    /\ ~conv.done
    /\ LET converted == _pcm_to_16k_mono(conv.pcm, 48000)
       IN  /\ conv' = [conv EXCEPT !.out = converted, !.done = TRUE]
           /\ bridge' = IF converted # <<>> THEN Submitted(bridge) ELSE bridge
    /\ UNCHANGED <<loopVars, agentVars, sinkVars, driverLeft>>

----------------------------------------------------------------------------
(* run_agent.  A task is [pc, turn, query, ncomp, ran, call]:
   pc   : "created"  scheduled by create_task (or called), body not yet entered
          "llm"      awaiting completion(messages)
          "speak"    awaiting speak_out.speak(assistant_msg)
          "returned" | "raised"
   turn : the loop variable of `for turn in range(1, MAX_TURNS + 1)`
   ncomp: completion calls made so far
   ran  : calls of call_tool so far
   call : index in `calls` of the speak call awaited (0: none)
   site : where the call was made: "batch" (main.py line 136), "batch_eos"
          (the same, the marker already received), "flush" (line 152),
          "test" (a direct call)
   other: replies so far that were not a non-stop tool call with a string
          name, completion failures included (history)
   result: the list as it is when run_agent returns it
   last : the latest outcome of a completion call: the raw reply, or
          CompletionFailed (history)
   input: the list as it was passed to the latest completion call (history) *)

NewTask(query, site) ==
    [pc |-> "created", turn |-> 0, query |-> query, ncomp |-> 0, ran |-> 0,
     call |-> 0, site |-> site, other |-> 0, result |-> <<>>,
     last |-> NoReplyYet, input |-> <<>>]

Active(t) == tasks[t].pc \in {"created", "llm", "speak"}

\* the user turn without the batch text
UserTurn_Blank(query) == build_message("user", [k |-> "batch", text |-> <<>>])

UserTurn(query) == build_message("user", [k |-> "batch", text |-> query])
AssistantTurn(m) == build_message("assistant", [k |-> "reply", reply |-> m])
\* the tool-result turn written with the assistant role
ResultTurn_AsAssistant(name, result) ==
    build_message("assistant",
                  [k |-> "result", tool |-> name, result |-> result])

ResultTurn(name, result) ==
    build_message("user", [k |-> "result", tool |-> name, result |-> result])
SystemTurn == build_message("system", [k |-> "sys"])

\* The usual final replies: plain text, and the `done` tool call.
FinalReplies ==
    { Reply("text", TRUE, FALSE, "-", "-"),
      Reply("call", TRUE, FALSE, "done", "empty") }

\* Other replies that are not a non-stop tool call: None, whitespace, padded
\* text, JSON that is no tool call, a tool call of the wrong shape or with
\* non-object arguments, and the other stop tool.
OddFinalReplies ==
    { NoneReply,
      Reply("text", FALSE, TRUE, "-", "-"),
      Reply("text", TRUE, TRUE, "-", "-"),
      Reply("json", TRUE, FALSE, "-", "-"),
      Reply("badcall", TRUE, FALSE, "-", "-"),
      Reply("call", TRUE, FALSE, "dance", "notdict"),
      Reply("call", TRUE, TRUE, "wait_for_more", "absent") }

\* Non-stop tool calls the handler accepts.
GoodToolReplies == { Reply("call", TRUE, FALSE, "dance", "dance") }

\* Non-stop tool calls that name an unknown tool or pass wrong arguments.
FaultyToolReplies ==
    { Reply("call", TRUE, FALSE, "nosuch", "empty"),
      Reply("call", TRUE, TRUE, "backflip", "bogus") }

\* A tool call whose "name" is a JSON array.
UnhashableToolReplies == { Reply("call", TRUE, FALSE, "LIST", "empty") }

\* `return messages` (line 234): the task is done, its result the list.
Return(task, msgs) == [task EXCEPT !.pc = "returned", !.result = msgs]

\* run_agent starting from a fresh list, as it does when `messages` is None
AgentStart_FreshList(t) ==
    /\ tasks[t].pc = "created"
    /\ messages' = <<SystemTurn, UserTurn(tasks[t].query)>>
    /\ tasks' = [tasks EXCEPT ![t].pc = "llm", ![t].turn = 1, ![t].ncomp = 1,
                              ![t].input = messages']
    /\ UNCHANGED <<toolBudget, faultBudget, sinkVars, agentFrame>>

\* run_agent lines 159-193: the body is entered, the user turn is appended and
\* the first completion call is made.
AgentStart(t) ==
    /\ tasks[t].pc = "created"
    /\ messages' = Append(messages, UserTurn(tasks[t].query))
    /\ tasks' = [tasks EXCEPT ![t].pc = "llm", ![t].turn = 1, ![t].ncomp = 1,
                              ![t].input = messages']
    /\ UNCHANGED <<toolBudget, faultBudget, sinkVars, agentFrame>>

\* the completion failure leaving run_agent as an exception
AgentCompletionRaises_Propagates(t) ==
    /\ tasks[t].pc = "llm"
    /\ tasks' = [tasks EXCEPT ![t].pc = "raised", ![t].last = CompletionFailed,
                              ![t].other = @ + 1]
    /\ UNCHANGED <<messages, toolBudget, faultBudget, sinkVars, agentFrame>>

\* run_agent lines 194-196 and 234: the completion call raises.
AgentCompletionRaises(t) ==
    /\ tasks[t].pc = "llm"
    /\ tasks' = [tasks EXCEPT ![t] =
                    Return([@ EXCEPT !.other = @ + 1, !.last = CompletionFailed],
                           messages)]
    /\ UNCHANGED <<messages, toolBudget, faultBudget, sinkVars, agentFrame>>

\* the range running one turn too far
MoreTurns_OffByOne(turn) == turn <= MAX_TURNS

\* `for turn in range(1, MAX_TURNS + 1)`: is there a next iteration?
MoreTurns(turn) == turn < MAX_TURNS

\* The end of one loop iteration: the next completion call, or the return.
NextTurn(task, msgs) ==
    IF MoreTurns(task.turn)
    THEN [task EXCEPT !.turn = @ + 1, !.ncomp = @ + 1, !.input = msgs]
    ELSE Return(task, msgs)

\* run_agent lines 198-232: the completion call returns reply r.
\* o is 1 when r is not a non-stop tool call with a string name (history).
AgentReply(t, r, o) ==
    LET m == Normalize(r)
        parsed == parse_tool_call(m)
        task == [tasks[t] EXCEPT !.other = @ + o, !.last = r]
        spoken == Append(messages, AssistantTurn(m))
    IN  /\ tasks[t].pc = "llm"
        /\ IF parsed = "None"
           THEN IF IsEmpty(m)
                THEN /\ tasks' = [tasks EXCEPT ![t] = Return(task, messages)]
                     /\ UNCHANGED <<messages, calls>>
                ELSE /\ messages' = spoken
                     /\ calls' = Append(calls, NewCall(m, t))
                     /\ tasks' = [tasks EXCEPT ![t] =
                                    [task EXCEPT !.pc = "speak",
                                                 !.call = Len(calls) + 1]]
           ELSE IF IsStopTool(parsed[1])
                THEN /\ messages' = spoken
                     /\ tasks' = [tasks EXCEPT ![t] = Return(task, spoken)]
                     /\ UNCHANGED calls
                ELSE LET result == call_tool(parsed[1], parsed[2])
                         fed == messages \o <<AssistantTurn(m),
                                              ResultTurn(parsed[1], result)>>
                     IN  IF result = "RAISE"
                         THEN /\ tasks' = [tasks EXCEPT ![t] =
                                             [task EXCEPT !.pc = "raised",
                                                          !.ran = @ + 1]]
                              /\ UNCHANGED <<messages, calls>>
                         ELSE /\ messages' = fed
                              /\ tasks' =
                                    [tasks EXCEPT ![t] =
                                        NextTurn([task EXCEPT !.ran = @ + 1], fed)]
                              /\ UNCHANGED calls
        /\ UNCHANGED <<sinkKind, is_speaking, reqOut, playing, watchers, played,
                       agentFrame>>

AgentFinalReply(t) ==
    /\ \E r \in FinalReplies : AgentReply(t, r, 1)
    /\ UNCHANGED <<toolBudget, faultBudget>>

AgentOddFinalReply(t) ==
    /\ \E r \in OddFinalReplies : AgentReply(t, r, 1)
    /\ UNCHANGED <<toolBudget, faultBudget>>

AgentGoodToolReply(t) ==
    /\ toolBudget > 0
    /\ \E r \in GoodToolReplies : AgentReply(t, r, 0)
    /\ toolBudget' = toolBudget - 1
    /\ UNCHANGED faultBudget

AgentFaultyToolReply(t) ==
    /\ toolBudget > 0
    /\ faultBudget > 0
    /\ \E r \in FaultyToolReplies : AgentReply(t, r, 0)
    /\ toolBudget' = toolBudget - 1
    /\ faultBudget' = faultBudget - 1

AgentUnhashableToolReply(t) ==
    /\ toolBudget > 0
    /\ faultBudget > 0
    /\ \E r \in UnhashableToolReplies : AgentReply(t, r, 1)
    /\ toolBudget' = toolBudget - 1
    /\ faultBudget' = faultBudget - 1

\* run_agent lines 216-217 and 234: speak has returned; break; return messages.
AgentSpeakReturned(t) ==
    /\ tasks[t].pc = "speak"
    /\ calls[tasks[t].call].pc = "returned"
    /\ tasks' = [tasks EXCEPT ![t] = Return(@, messages)]
    /\ UNCHANGED <<messages, toolBudget, faultBudget, sinkVars, agentFrame>>

\* run_agent line 216: speak has raised; nothing in run_agent catches it.
AgentSpeakRaised(t) ==
    /\ tasks[t].pc = "speak"
    /\ calls[tasks[t].call].pc = "raised"
    /\ tasks' = [tasks EXCEPT ![t].pc = "raised"]
    /\ UNCHANGED <<messages, toolBudget, faultBudget, sinkVars, agentFrame>>

----------------------------------------------------------------------------
(* SpecAgent: one run_agent call on the conversation [system], as the tests
   of tests/test_run_agent.py make it.                                     *)

Hi == <<"H", "i">>

LoopIdle ==
    /\ incoming = <<>>
    /\ produced = 0
    /\ buffer = <<>>
    /\ pending = <<>>
    /\ in_flight = 0
    /\ finished = FALSE
    /\ loopPc = "none"
    /\ returned = <<>>
    /\ emitted = <<>>
    /\ taken = <<>>

InitAgent ==
    /\ LoopIdle
    /\ messages = <<SystemTurn>>
    /\ tasks = <<NewTask(Hi, "test")>>
    /\ toolBudget = MAX_TURNS + 1
    /\ faultBudget = MaxToolFaults
    /\ SinkInit
    /\ driverLeft = 0
    /\ bridge = NewBridge("local")
    /\ conv = NoConversion

NextAgent ==
    \/ \E t \in DOMAIN tasks : AgentStart(t)
    \/ \E t \in DOMAIN tasks : AgentCompletionRaises(t)
    \/ \E t \in DOMAIN tasks : AgentFinalReply(t)
    \/ \E t \in DOMAIN tasks : AgentOddFinalReply(t)
    \/ \E t \in DOMAIN tasks : AgentGoodToolReply(t)
    \/ \E t \in DOMAIN tasks : AgentFaultyToolReply(t)
    \/ \E t \in DOMAIN tasks : AgentUnhashableToolReply(t)
    \/ \E t \in DOMAIN tasks : AgentSpeakReturned(t)
    \/ \E t \in DOMAIN tasks : AgentSpeakRaised(t)
    \/ \E c \in DOMAIN calls : LocalPassGuard(c)
    \/ \E c \in DOMAIN calls : LocalRecvPlay(c)
    \/ \E c \in DOMAIN calls : LocalRecvFail(c)
    \/ \E c \in DOMAIN calls : Watch(c)
    \/ \E c \in DOMAIN calls : PlaybackEnd(c)
    \/ \E c \in DOMAIN calls : DiscordSynthesize(c)
    \/ \E c \in DOMAIN calls : DiscordGetVoiceClientFail(c)
    \/ \E c \in DOMAIN calls : DiscordRecv(c)
    \/ \E c \in DOMAIN calls : DiscordRecvFail(c)
    \/ \E c \in DOMAIN calls : DiscordPlay(c)

SpecAgent == InitAgent /\ [][NextAgent]_vars

----------------------------------------------------------------------------
(* main.py: the sentence aggregator *)

\* The loop of _split_complete_sentences over re.split's parts: `acc` is the
\* text since the last boundary character, `out` the sentences so far.
RECURSIVE SplitFrom(_, _, _)
SplitFrom(text, acc, out) ==
    IF text = <<>>
    THEN [sentences |-> out, remainder |-> strip(acc)]
    ELSE IF Head(text) \in Boundary
         THEN SplitFrom(Tail(text), <<>>,
                        IF strip(acc) # <<>>
                        THEN Append(out, strip(acc) \o <<Head(text)>>)
                        ELSE Append(out, <<Head(text)>>))
         ELSE SplitFrom(Tail(text), Append(acc, Head(text)), out)

\* the split without the sentences made of a delimiter alone
_split_DropsStray(text) ==
    LET r == SplitFrom(text, <<>>, <<>>)
    IN  [r EXCEPT !.sentences = SelectSeq(@, LAMBDA x : Len(x) > 1)]

\* the split forgetting the text after the last boundary character
_split_LosesRemainder(text) ==
    [SplitFrom(text, <<>>, <<>>) EXCEPT !.remainder = <<>>]

\* the split emitting text without a boundary character as a sentence
_split_EmitsUnpunctuated(text) ==
    LET r == SplitFrom(text, <<>>, <<>>)
    IN  IF r.sentences = <<>> /\ r.remainder # <<>>
        THEN [sentences |-> <<r.remainder>>, remainder |-> <<>>]
        ELSE r

_split_complete_sentences(text) == SplitFrom(text, <<>>, <<>>)

----------------------------------------------------------------------------
(* main.py: main's producer side and _process_transcriptions *)

Item(text) == [kind |-> "text", text |-> text]
NoneItem == [kind |-> "None", text |-> <<>>]
\* the sentinel `no_item` of line 115
no_item == [kind |-> "no_item", text |-> <<>>]

\* What the input source may yield: text without a boundary character, text
\* ending a sentence, text holding two sentences, and whitespace only (main
\* skips it).
Transcriptions ==
    { <<"a">>, <<"b", ".">>, <<"c", ",", " ", "d", "!">>, <<" ">> }

\* main has put the None marker
closed == finished \/ \E i \in DOMAIN incoming : incoming[i] = NoneItem

\* main lines 202-206: the input source yields a transcription.
MainPut(text) ==
    /\ loopPc # "none"
    /\ ~closed
    /\ produced < MaxFragments
    /\ produced' = produced + 1
    /\ incoming' = IF strip(text) = <<>> THEN incoming
                   ELSE Append(incoming, Item(text))
    /\ UNCHANGED <<buffer, pending, in_flight, finished, loopPc, returned,
                   emitted, taken, agentVars, sinkVars, driverLeft, bridge, conv>>

\* main line 208: the input source has ended.
MainPutNone ==
    /\ loopPc # "none"
    /\ ~closed
    /\ incoming' = Append(incoming, NoneItem)
    /\ UNCHANGED <<produced, buffer, pending, in_flight, finished, loopPc,
                   returned, emitted, taken, agentVars, sinkVars, driverLeft,
                   bridge, conv>>

\* Task.done()
Done(task) == task.pc \in {"returned", "raised"}

\* the dispatch test without `in_flight is None`
MayDispatch_NoGuard(inflight, pend) == pend # <<>>

\* `in_flight is None and pending` (line 132)
MayDispatch(inflight, pend) == inflight = 0 /\ pend # <<>>

\* the flush test without `not pending`
MayFlush_IgnoresPending(fin, inflight, pend, buf) ==
    fin /\ inflight = 0 /\ buf # <<>>

\* `finished and in_flight is None and not pending and buffer` (line 148)
MayFlush(fin, inflight, pend, buf) ==
    fin /\ inflight = 0 /\ pend = <<>> /\ buf # <<>>

\* the return test without `not pending`
MayReturn_IgnoresPending(fin, inflight, pend, buf) ==
    fin /\ inflight = 0 /\ buf = <<>>

\* `finished and in_flight is None and not pending and not buffer` (line 160)
MayReturn(fin, inflight, pend, buf) ==
    fin /\ inflight = 0 /\ pend = <<>> /\ buf = <<>>

\* One iteration of `while True` (lines 117-161) with `item` what the poll of
\* line 119 gave: an Item, NoneItem, or no_item after the timeout.
LoopBody(item) ==
    LET fin == finished \/ item = NoneItem
        agg == IF item.kind = "text"
               THEN _split_complete_sentences(
                        strip(buffer \o <<" ">> \o item.text))
               ELSE [sentences |-> <<>>, remainder |-> buffer]
        pend1 == pending \o agg.sentences
        buf1 == agg.remainder
        \* lines 132-142
        disp == MayDispatch(in_flight, pend1)
        tasks1 == IF disp
                  THEN Append(tasks,
                              NewTask(strip(join(pend1)),
                                      IF fin THEN "batch_eos" ELSE "batch"))
                  ELSE tasks
        inf1 == IF disp THEN Len(tasks1) ELSE in_flight
        pend2 == IF disp THEN <<>> ELSE pend1
        \* lines 144-146
        done == inf1 # 0 /\ Done(tasks1[inf1])
        raises == done /\ tasks1[inf1].pc = "raised"
        inf2 == IF done THEN 0 ELSE inf1
        \* lines 148-158
        flush == MayFlush(fin, inf2, pend2, buf1)
        tasks2 == IF flush THEN Append(tasks1, NewTask(buf1, "flush")) ELSE tasks1
        inf3 == IF flush THEN Len(tasks2) ELSE inf2
        buf2 == IF flush THEN <<>> ELSE buf1
        \* lines 160-161
        ret == MayReturn(fin, inf3, pend2, buf2)
    IN  /\ finished' = fin
        /\ emitted' = emitted \o agg.sentences
        /\ IF raises
           THEN \* in_flight.result() re-raises the task's exception
                /\ buffer' = buf1
                /\ pending' = pend2
                /\ tasks' = tasks1
                /\ in_flight' = inf1
                /\ loopPc' = "raised"
                /\ UNCHANGED returned
           ELSE /\ buffer' = buf2
                /\ pending' = pend2
                /\ tasks' = tasks2
                /\ in_flight' = inf3
                /\ loopPc' = IF ret THEN "returned" ELSE "running"
                /\ returned' = IF ret THEN messages ELSE returned
        /\ taken' = IF item.kind = "text" THEN Append(taken, item.text)
                  ELSE taken
        /\ UNCHANGED <<produced, messages, toolBudget, faultBudget, sinkVars,
                       driverLeft, bridge, conv>>

\* line 119: the queue holds an item.
LoopReceive ==
    /\ loopPc = "running"
    /\ incoming # <<>>
    /\ incoming' = Tail(incoming)
    /\ LoopBody(Head(incoming))

\* lines 119-121: the queue stays empty for 50 ms.
LoopTimeout ==
    /\ loopPc = "running"
    /\ incoming = <<>>
    /\ UNCHANGED incoming
    /\ LoopBody(no_item)

----------------------------------------------------------------------------
(* Spec: main with its processor task, the run_agent tasks it creates and
   the output sink.  The language model answers with plain text, with the
   `done` tool call, with a tool call the handler accepts, or fails; the
   other shapes of reply are those of SpecAgent.                           *)

Init ==
    /\ incoming = <<>>
    /\ produced = 0
    /\ buffer = <<>>
    /\ pending = <<>>
    /\ in_flight = 0
    /\ finished = FALSE
    /\ loopPc = "running"
    /\ returned = <<>>
    /\ emitted = <<>>
    /\ taken = <<>>
    /\ messages = <<SystemTurn>>
    /\ tasks = <<>>
    /\ toolBudget = MaxToolReplies
    /\ faultBudget = 0
    /\ SinkInit
    /\ driverLeft = 0
    /\ bridge = NewBridge("local")
    /\ conv = NoConversion

Next ==
    \/ \E text \in Transcriptions : MainPut(text)
    \/ MainPutNone
    \/ LoopReceive
    \/ LoopTimeout
    \/ \E t \in DOMAIN tasks : AgentStart(t)
    \/ \E t \in DOMAIN tasks : AgentCompletionRaises(t)
    \/ \E t \in DOMAIN tasks : AgentFinalReply(t)
    \/ \E t \in DOMAIN tasks : AgentGoodToolReply(t)
    \/ \E t \in DOMAIN tasks : AgentSpeakReturned(t)
    \/ \E t \in DOMAIN tasks : AgentSpeakRaised(t)
    \/ \E c \in DOMAIN calls : LocalPassGuard(c)
    \/ \E c \in DOMAIN calls : LocalRecvPlay(c)
    \/ \E c \in DOMAIN calls : LocalRecvFail(c)
    \/ \E c \in DOMAIN calls : Watch(c)
    \/ \E c \in DOMAIN calls : PlaybackEnd(c)
    \/ \E c \in DOMAIN calls : DiscordSynthesize(c)
    \/ \E c \in DOMAIN calls : DiscordGetVoiceClientFail(c)
    \/ \E c \in DOMAIN calls : DiscordRecv(c)
    \/ \E c \in DOMAIN calls : DiscordRecvFail(c)
    \/ \E c \in DOMAIN calls : DiscordPlay(c)

Spec == Init /\ [][Next]_vars

\* The processor task is scheduled and every enabled iteration is taken.
FairSpec == Spec /\ WF_vars(LoopReceive \/ LoopTimeout)

----------------------------------------------------------------------------
(* SpecSink: speak calls issued one after the other on one output sink, each
   awaited (until it returns or raises) before the next is issued.         *)

Hello == Reply("text", TRUE, FALSE, "-", "-")

DriverSpeak ==
    /\ driverLeft > 0
    /\ \A c \in DOMAIN calls : calls[c].pc \in {"returned", "raised"}
    /\ calls' = Append(calls, NewCall(Hello, 0))
    /\ driverLeft' = driverLeft - 1
    /\ UNCHANGED <<sinkKind, is_speaking, reqOut, playing, watchers, played,
                   loopVars, agentVars, bridge, conv>>

InitSink ==
    /\ LoopIdle
    /\ messages = <<SystemTurn>>
    /\ tasks = <<>>
    /\ toolBudget = 0
    /\ faultBudget = 0
    /\ SinkInit
    /\ driverLeft = MaxSpeaks
    /\ bridge = NewBridge("local")
    /\ conv = NoConversion

NextSink ==
    \/ DriverSpeak
    \/ \E c \in DOMAIN calls : LocalPassGuard(c)
    \/ \E c \in DOMAIN calls : LocalRecvPlay(c)
    \/ \E c \in DOMAIN calls : LocalRecvFail(c)
    \/ \E c \in DOMAIN calls : Watch(c)
    \/ \E c \in DOMAIN calls : PlaybackEnd(c)
    \/ \E c \in DOMAIN calls : DiscordSynthesize(c)
    \/ \E c \in DOMAIN calls : DiscordGetVoiceClientFail(c)
    \/ \E c \in DOMAIN calls : DiscordRecv(c)
    \/ \E c \in DOMAIN calls : DiscordRecvFail(c)
    \/ \E c \in DOMAIN calls : DiscordPlay(c)

SpecSink == InitSink /\ [][NextSink]_vars

----------------------------------------------------------------------------
(* SpecConcurrent: tts.speak called several times without awaiting the
   earlier calls (as tasks on one event loop), so that several calls are
   pending at once.                                                        *)

ConcurrentSpeak ==
    /\ driverLeft > 0
    /\ calls' = Append(calls, NewCall(Hello, 0))
    /\ driverLeft' = driverLeft - 1
    /\ UNCHANGED <<sinkKind, is_speaking, reqOut, playing, watchers, played,
                   loopVars, agentVars, bridge, conv>>

InitConcurrent ==
    /\ InitSink
    /\ sinkKind = "local"

NextConcurrent ==
    \/ ConcurrentSpeak
    \/ \E c \in DOMAIN calls : LocalPassGuard(c)
    \/ \E c \in DOMAIN calls : LocalRecvPlay(c)
    \/ \E c \in DOMAIN calls : LocalRecvFail(c)
    \/ \E c \in DOMAIN calls : Watch(c)
    \/ \E c \in DOMAIN calls : PlaybackEnd(c)

SpecConcurrent == InitConcurrent /\ [][NextConcurrent]_vars

----------------------------------------------------------------------------
(* SpecBridge: one bridge, its owner calling start() and stop(), the server
   sending lines, closing the connection or failing, and one consumer of
   transcriptions().  SpecAudio: the same bridge with the audio side, the
   voice sink or the input stream offering buffers and the send task
   forwarding them.                                                        *)

InitBridge ==
    /\ LoopIdle
    /\ messages = <<SystemTurn>>
    /\ tasks = <<>>
    /\ toolBudget = 0
    /\ faultBudget = 0
    /\ SinkInit
    /\ driverLeft = 0
    /\ bridge = NewBridge(sinkKind)
    /\ conv = NoConversion

NextBridge ==
    \/ BridgeStart
    \/ BridgeStop
    \/ \E i \in DOMAIN bridge.recv : \E data \in ServerLines : RecvData(i, data)
    \/ \E i \in DOMAIN bridge.recv : RecvClosed(i)
    \/ \E i \in DOMAIN bridge.recv : RecvTimeout(i)
    \/ \E i \in DOMAIN bridge.recv : RecvError(i)
    \/ ConsumerBegin
    \/ ConsumerYield
    \/ ConsumerEnd

SpecBridge == InitBridge /\ [][NextBridge]_vars

NextAudio ==
    \/ BridgeStart
    \/ BridgeStop
    \/ SubmitAudio
    \/ \E i \in DOMAIN bridge.send :
          \E outcome \in {"sent", "timeout", "error"} : SendAudio(i, outcome)
    \/ \E i \in DOMAIN bridge.recv : RecvClosed(i)

SpecAudio == InitBridge /\ [][NextAudio]_vars

----------------------------------------------------------------------------
(* SpecPipe: main as a whole.  It enters the input source (start()), creates
   the processor task, iterates transcriptions() into `incoming`, puts the
   None marker when the iterator ends, awaits the processor and leaves the
   input source (stop()).  The language model answers with plain text or
   the completion call fails.                                              *)

\* main lines 191-200: the input source is entered and the processor created;
\* when start() raises, main ends there.
MainEnter ==
    /\ loopPc = "none"
    /\ bridge.op = "new"
    /\ \E ok \in BOOLEAN :
          IF ok
          THEN /\ bridge' = [Started(bridge) EXCEPT !.consumer = "iterating"]
               /\ loopPc' = "running"
          ELSE /\ bridge' = StartRaised(bridge)
               /\ UNCHANGED loopPc
    /\ UNCHANGED <<incoming, produced, buffer, pending, in_flight, finished,
                   returned, emitted, taken, agentVars, sinkVars, driverLeft,
                   conv>>

\* main lines 202-206: transcriptions() yields a text; main puts it on
\* `incoming` unless it is blank.
MainYield ==
    /\ loopPc # "none"
    /\ bridge.consumer = "iterating"
    /\ bridge.text_queue # <<>>
    /\ bridge' = ConsumerTake(bridge)
    /\ produced' = produced + 1
    /\ incoming' = IF strip(Head(bridge.text_queue)) = <<>> THEN incoming
                   ELSE Append(incoming, Item(Head(bridge.text_queue)))
    /\ UNCHANGED <<buffer, pending, in_flight, finished, loopPc, returned,
                   emitted, taken, agentVars, sinkVars, driverLeft,
                   conv>>

\* main line 208: transcriptions() ends; main puts the None marker.
MainEnd ==
    /\ loopPc # "none"
    /\ bridge.consumer = "iterating"
    /\ MayEnd(bridge.running, bridge.text_queue)
    /\ bridge' = [bridge EXCEPT !.consumer = "ended"]
    /\ incoming' = Append(incoming, NoneItem)
    /\ UNCHANGED <<produced, buffer, pending, in_flight, finished, loopPc,
                   returned, emitted, taken, agentVars, sinkVars, driverLeft,
                   conv>>

\* main line 209 and the exit of the AsyncExitStack: the processor has ended
\* (returned or raised); the input source is left, which calls stop().
MainExit ==
    /\ bridge.consumer = "ended"
    /\ loopPc \in {"returned", "raised"}
    /\ bridge.op # "stop"
    /\ bridge' = Stopped(bridge)
    /\ UNCHANGED bridgeFrame

InitPipe ==
    /\ LoopIdle
    /\ messages = <<SystemTurn>>
    /\ tasks = <<>>
    /\ toolBudget = 0
    /\ faultBudget = 0
    /\ SinkInit
    /\ driverLeft = 0
    /\ bridge = NewBridge(sinkKind)
    /\ conv = NoConversion

NextPipe ==
    \/ MainEnter
    \/ MainYield
    \/ MainEnd
    \/ MainExit
    \/ \E i \in DOMAIN bridge.recv : \E data \in ServerLines : RecvData(i, data)
    \/ \E i \in DOMAIN bridge.recv : RecvClosed(i)
    \/ \E i \in DOMAIN bridge.recv : RecvTimeout(i)
    \/ \E i \in DOMAIN bridge.recv : RecvError(i)
    \/ LoopReceive
    \/ LoopTimeout
    \/ \E t \in DOMAIN tasks : AgentStart(t)
    \/ \E t \in DOMAIN tasks : AgentCompletionRaises(t)
    \/ \E t \in DOMAIN tasks : AgentFinalReply(t)
    \/ \E t \in DOMAIN tasks : AgentSpeakReturned(t)
    \/ \E t \in DOMAIN tasks : AgentSpeakRaised(t)
    \/ \E c \in DOMAIN calls : LocalPassGuard(c)
    \/ \E c \in DOMAIN calls : LocalRecvPlay(c)
    \/ \E c \in DOMAIN calls : LocalRecvFail(c)
    \/ \E c \in DOMAIN calls : Watch(c)
    \/ \E c \in DOMAIN calls : PlaybackEnd(c)
    \/ \E c \in DOMAIN calls : DiscordSynthesize(c)
    \/ \E c \in DOMAIN calls : DiscordGetVoiceClientFail(c)
    \/ \E c \in DOMAIN calls : DiscordRecv(c)
    \/ \E c \in DOMAIN calls : DiscordRecvFail(c)
    \/ \E c \in DOMAIN calls : DiscordPlay(c)

SpecPipe == InitPipe /\ [][NextPipe]_vars

----------------------------------------------------------------------------
(* SpecAgg: the dispatch loop fed with fragments of every shape (boundary
   characters first, last, doubled, alone; inner and outer blanks), the
   language model being unreachable: every invocation returns at its first
   completion call.                                                        *)

Fragments ==
    { <<"a">>, <<"b", ".">>, <<".">>, <<"a", ".", "b">>, <<"a", " ", "b">>,
      <<"!", "?">>, <<" ", "a", ",", " ">>, <<" ">> }

NextAgg ==
    \/ \E text \in Fragments : MainPut(text)
    \/ MainPutNone
    \/ LoopReceive
    \/ LoopTimeout
    \/ \E t \in DOMAIN tasks : AgentStart(t)
    \/ \E t \in DOMAIN tasks : AgentCompletionRaises(t)

SpecAgg == Init /\ [][NextAgg]_vars

----------------------------------------------------------------------------
(* SpecResample: the voice sink of a bridge that is running is handed one
   PCM buffer.                                                             *)

InitResample ==
    /\ LoopIdle
    /\ messages = <<SystemTurn>>
    /\ tasks = <<>>
    /\ toolBudget = 0
    /\ faultBudget = 0
    /\ SinkInit
    /\ sinkKind = "discord"
    /\ driverLeft = 0
    /\ bridge = Started(NewBridge("discord"))
    /\ \E pcm \in PcmInputs : conv = [NoConversion EXCEPT !.pcm = pcm]

NextResample == SinkWrite

SpecResample == InitResample /\ [][NextResample]_vars

----------------------------------------------------------------------------
(* Properties *)

CallsBy(t) == {c \in DOMAIN calls : calls[c].by = t}

IsBatch(task) == task.site # "flush"

\* the batches handed to run_agent by the dispatch of line 136, in order
BatchQueries ==
    LET sel == SelectSeq(tasks, IsBatch)
    IN  [i \in 1..Len(sel) |-> sel[i].query]

AllTasksDone == \A t \in DOMAIN tasks : Done(tasks[t])

\* the reply text with its surrounding whitespace removed
Trim(r) == [r EXCEPT !.pad = FALSE]

\* a reply that is non-empty after trimming and is not a valid tool call
PlainReply(r) ==
    \/ r.form = "text" /\ r.body
    \/ r.form \in {"json", "badcall"}
    \/ r.form = "call" /\ r.args = "notdict"

\* a reply that parses as a tool call naming a stop tool
StopCall(r) ==
    /\ r.form = "call"
    /\ r.name \in {"done", "wait_for_more"}
    /\ r.args # "notdict"

\* C1: at most one run_agent invocation is in flight at any time, and it is
\* the one the loop holds in in_flight; so a dispatch (that of the batch or
\* the end-of-stream flush) happens only when no invocation is in flight.
C1_SingleFlight ==
    \A t \in DOMAIN tasks :
        Active(t) => /\ in_flight = t
                     /\ \A u \in DOMAIN tasks : Active(u) => u = t

\* C1 witness: the marker has been received and a sentence waits in the
\* pending batch while an invocation is in flight.
C1_Witness ==
    /\ finished
    /\ pending # <<>>
    /\ \E t \in DOMAIN tasks : Active(t)

\* C2: when the loop has returned, every invocation has completed, the
\* pending batch is empty, every sentence ever put in the pending batch has
\* been handed to a run_agent invocation, and the sentences still pending
\* when the marker was received went to one invocation.
C2_DrainBeforeReturn ==
    loopPc = "returned" =>
        /\ pending = <<>>
        /\ \A t \in DOMAIN tasks : tasks[t].pc = "returned"
        /\ join(BatchQueries) = join(emitted)
        /\ Cardinality({t \in DOMAIN tasks : tasks[t].site = "batch_eos"}) <= 1

\* C2 witness: the loop has returned after dispatching, once the marker was
\* received, a batch that waited behind an earlier invocation.
C2_Witness ==
    /\ loopPc = "returned"
    /\ \E t \in DOMAIN tasks : t > 1 /\ tasks[t].site = "batch_eos"

\* C3: if every run_agent invocation eventually completes, then once the
\* marker has been received the loop eventually returns.
C3_EventuallyReturns ==
    ([]<>AllTasksDone) => (finished ~> (loopPc = "returned"))

C7_CompletionFailure ==
    \A t \in DOMAIN tasks :
        tasks[t].last = CompletionFailed =>
            /\ tasks[t].pc = "returned"
            /\ tasks[t].result = tasks[t].input
            /\ messages = tasks[t].input
            /\ messages[1] = SystemTurn
            /\ messages[Len(messages)].role = "user"
            /\ CallsBy(t) = {}

\* C7 witness: the completion call raised on a turn after the first.
C7_Witness ==
    \E t \in DOMAIN tasks :
        /\ tasks[t].last = CompletionFailed
        /\ tasks[t].ncomp > 1

\* C8: no exception escapes run_agent, whatever the replies, the tool
\* outcomes and the outcome of speak.
C8_NeverThrows == \A t \in DOMAIN tasks : tasks[t].pc # "raised"

\* C9: a speak call that raised does not end the dispatch loop with an
\* exception.
C9_SpeakFailureNotFatal ==
    (\E c \in DOMAIN calls : calls[c].pc = "raised") => loopPc # "raised"

\* C10: at most one utterance is playing at any time, so the playback of a
\* later speak call starts only after that of the earlier one has completed.
C10_NoOverlap == Cardinality(playing) <= 1

\* C10 witness: the audio of a later call is playing after that of an
\* earlier call has completed.
C10_Witness ==
    \E c1, c2 \in DOMAIN calls : c1 < c2 /\ c1 \in played /\ c2 \in playing

\* C11: speak sends the synthesis request for a new text only once no earlier
\* utterance is playing, for the local and for the Discord speaker: no step
\* moves a call to awaiting the synthesis reply while something is playing.
C11_WaitsBeforeSynthesis ==
    [][\A c \in DOMAIN calls :
          (calls[c].pc # "recv" /\ calls'[c].pc = "recv") => playing = {}]_vars

\* C12: a synthesis failure leaves the serializer consistent: whenever the
\* speaking flag is set, some call is awaiting its synthesis reply, some
\* utterance is playing or some watcher is pending, so that the flag will be
\* cleared and a later speak call can pass.
C12_FailureLeavesConsistent ==
    is_speaking =>
        \/ \E c \in DOMAIN calls : calls[c].pc = "recv"
        \/ playing # {}
        \/ watchers # {}

\* C13: after stop() has returned, no send or receive task of the bridge is
\* still pending and no connection is open, whatever state the bridge was in
\* when stop() was called (the server having closed the connection included).
C13_StopReleases ==
    bridge.op = "stop" =>
        /\ bridge.socket # "open"
        /\ \A i \in DOMAIN bridge.send : bridge.send[i] # "run"
        /\ \A i \in DOMAIN bridge.recv : bridge.recv[i] # "run"

\* C14: once the receive loop has ended on an I/O error that is not a read
\* timeout, the bridge is no longer running (so that transcriptions() ends
\* when the queue is drained).
C14_ErrorStopsBridge ==
    (\E i \in DOMAIN bridge.recv : bridge.recv[i] = "failed") => ~bridge.running

\* C15: transcriptions() yields the fragments put on the transcript queue in
\* arrival order, each once (what was yielded followed by what is queued is
\* what was put), and it ends only on a bridge that is not running with an
\* empty queue, every fragment put so far having been yielded.
C15_YieldsAllInOrder ==
    /\ [](bridge.yielded \o bridge.text_queue = bridge.enqueued)
    /\ [][(bridge.consumer # "ended" /\ bridge'.consumer = "ended") =>
            /\ ~bridge.running
            /\ bridge.text_queue = <<>>
            /\ bridge'.yielded = bridge'.enqueued]_vars

\* C15 witness: the iterator has ended after yielding two fragments, on a
\* bridge the server closed.
C15_Witness ==
    /\ bridge.consumer = "ended"
    /\ Len(bridge.yielded) = 2
    /\ bridge.lastRecv = "closed"

\* C17: the audio queue never holds more than its capacity, and a buffer
\* offered to a full queue never enters it nor displaces a queued one.
C17_AudioQueueBounded ==
    /\ Len(bridge.audio_queue) <= AudioMaxsize(bridge.kind)
    /\ \A i \in DOMAIN bridge.audio_queue : bridge.audio_queue[i] = "a"

\* C17 witness: a buffer has been dropped at a queue holding its capacity.
C17_Witness ==
    /\ bridge.lastSubmit = "dropped"
    /\ Len(bridge.audio_queue) = AudioMaxsize(bridge.kind)

\* C18: a start() call on a running bridge changes nothing of the bridge (but
\* the count of calls): no socket, no task, no queue.
C18_StartIdempotent ==
    [][(bridge.running /\ bridge'.nstart # bridge.nstart) =>
          bridge' = [bridge EXCEPT !.nstart = bridge'.nstart]]_vars

\* C18 witness: start() has been called twice on a bridge that connected once
\* and is running with one send and one receive task.
C18_Witness ==
    /\ bridge.running
    /\ bridge.nstart = 2
    /\ bridge.connects = 1
    /\ Len(bridge.send) = 1
    /\ Len(bridge.recv) = 1

\* C16: once the server has closed the connection the bridge is not running,
\* the None marker is on `incoming` at most once and as its last item, put
\* when transcriptions() ended, and the dispatch loop does not end by an
\* exception.
C16_ServerCloseEndsCleanly ==
    /\ bridge.lastRecv = "closed" => ~bridge.running
    /\ \A i \in DOMAIN incoming : incoming[i] = NoneItem => i = Len(incoming)
    /\ bridge.consumer = "ended" => closed
    /\ bridge.lastRecv = "closed" => loopPc # "raised"

\* concatenation of a list of texts
RECURSIVE Flat(_)
Flat(l) == IF l = <<>> THEN <<>> ELSE Head(l) \o Flat(Tail(l))

NumBoundaries(s) == Len(SelectSeq(s, LAMBDA ch : ch \in Boundary))

\* a text without its whitespace; without whitespace and boundary characters
NoWS(s) == SelectSeq(s, LAMBDA ch : ch \notin WS)
Letters(s) == SelectSeq(s, LAMBDA ch : ch \notin WS \cup Boundary)

\* the text of the end-of-stream flush, if it has happened
Flushed ==
    Flat([i \in 1..Len(SelectSeq(tasks, LAMBDA task : task.site = "flush")) |->
            SelectSeq(tasks, LAMBDA task : task.site = "flush")[i].query])

\* C19: the number of sentences emitted into the pending batch is the number
\* of boundary characters in the fragments the aggregator has been fed.
C19_OneSentencePerBoundary == Len(emitted) = NumBoundaries(Flat(taken))

\* C19 witness: the loop has returned after three sentences were emitted from
\* two fragments, one of the sentences being a delimiter that followed no text.
C19_Witness ==
    /\ loopPc = "returned"
    /\ Len(taken) = 2
    /\ Len(emitted) = 3
    /\ \E i \in DOMAIN emitted : Len(emitted[i]) = 1

\* C20: the emitted sentences, then the flushed text, then what is still
\* buffered, read without whitespace, are the fragments fed read without
\* whitespace (so also without boundary characters): nothing is lost,
\* nothing is emitted twice, and text leaves the buffer only into a sentence
\* or the flush.
C20_NoLossNoDuplication ==
    /\ NoWS(Flat(emitted) \o Flushed \o buffer) = NoWS(Flat(taken))
    /\ Letters(Flat(emitted) \o Flushed \o buffer) = Letters(Flat(taken))

\* C20 witness: the loop has returned after a sentence was emitted, text
\* stayed buffered across a fragment and was flushed at the end of stream.
C20_Witness ==
    /\ loopPc = "returned"
    /\ Len(taken) = 2
    /\ emitted # <<>>
    /\ Len(Flushed) = 3

\* C21: in the conversation every assistant turn comes directly after a
\* user-role turn (the batch or a tool result): never after another
\* assistant turn, never after the system turn, never first.
C21_AssistantFollowsUser ==
    \A i \in DOMAIN messages :
        messages[i].role = "assistant" => i > 1 /\ messages[i - 1].role = "user"

\* C21 witness: a conversation holding a tool call with its result turn and
\* the replies to two batches.
C21_Witness ==
    /\ \E i \in DOMAIN messages : messages[i].content.k = "result"
    /\ Len(SelectSeq(messages, LAMBDA m : m.role = "assistant")) >= 3
    /\ Len(tasks) >= 2

IsPrefix(s, t) == Len(s) <= Len(t) /\ SubSeq(t, 1, Len(s)) = s

\* C22: every step leaves the turns of the conversation in place and at most
\* appends to them, and the first turn is always the system turn.
C22_ConversationOnlyGrows ==
    /\ [](messages # <<>> /\ messages[1] = SystemTurn)
    /\ [][IsPrefix(messages, messages')]_vars

\* C22 witness: the loop has returned a conversation that grew over two
\* invocations.
C22_Witness ==
    /\ loopPc = "returned"
    /\ Len(tasks) >= 2
    /\ Len(returned) >= 5

\* C23: the conversation the dispatch loop returns holds exactly one
\* assistant turn for each dispatched batch whose invocation did not end on
\* a stop tool.
C23_OneReplyPerBatch ==
    loopPc = "returned" =>
        Len(SelectSeq(returned, LAMBDA m : m.role = "assistant"))
          = Len(SelectSeq(tasks, LAMBDA task : ~StopCall(task.last)))

\* a reply that is a tool_calls JSON of the wrong shape or with `arguments`
\* that is not an object
Malformed(r) ==
    \/ r.form = "badcall"
    \/ r.form = "call" /\ r.args = "notdict"

\* C24: after a malformed tool-call reply the conversation ends with a
\* user-role result turn carrying the error, run_agent goes on to a further
\* completion call (or has returned at the turn cap), nothing is spoken and
\* nothing raises.
C24_MalformedCallFedBack ==
    \A t \in DOMAIN tasks :
        Malformed(tasks[t].last) =>
            /\ tasks[t].pc \in {"llm", "returned"}
            /\ CallsBy(t) = {}
            /\ messages[Len(messages)].role = "user"
            /\ messages[Len(messages)].content.k = "result"

\* C25: no speak call sends, or tries to send, a synthesis request while the
\* reply to an earlier request is outstanding: at most one call awaits a
\* reply and no send was refused by the REQ socket.
C25_OneOutstandingRequest ==
    /\ Cardinality({c \in DOMAIN calls : calls[c].pc = "recv"}) <= 1
    /\ \A c \in DOMAIN calls : calls[c].sent # "refused"
    /\ (\E c \in DOMAIN calls : calls[c].pc = "recv") => reqOut

\* C25 witness: a second request is outstanding after the reply to the first
\* was received.
C25_Witness ==
    \E c1, c2 \in DOMAIN calls :
        /\ c1 < c2
        /\ calls[c1].pc = "returned"
        /\ calls[c1].sent = "yes"
        /\ calls[c2].pc = "recv"

\* the texts of a list separated by single blanks
RECURSIVE SpaceJoined(_)
SpaceJoined(l) ==
    IF l = <<>> THEN <<>>
    ELSE IF Len(l) = 1 THEN l[1]
    ELSE l[1] \o <<" ">> \o SpaceJoined(Tail(l))

\* the sentences a step adds to the pending batch
NewSentences == SubSeq(emitted', Len(emitted) + 1, Len(emitted'))

\* C26: while an invocation is in flight no batch is dispatched and the
\* sentences that complete are added to the pending batch; a batch is
\* dispatched only when none is in flight, it is one invocation whose query is
\* all pending sentences joined by blanks, and the pending batch is empty
\* right after.
C26_BatchesWhileInFlight ==
    /\ [][in_flight # 0 =>
            /\ pending' = pending \o NewSentences
            /\ \A t \in DOMAIN tasks' :
                  t > Len(tasks) => tasks'[t].site = "flush"]_vars
    /\ [][(Len(tasks') > Len(tasks) /\ tasks'[Len(tasks')].site # "flush") =>
            /\ in_flight = 0
            /\ \A t \in DOMAIN tasks : ~Active(t)
            /\ Len(tasks') = Len(tasks) + 1
            /\ in_flight' = Len(tasks')
            /\ tasks'[Len(tasks')].query = SpaceJoined(pending \o NewSentences)
            /\ pending' = <<>>]_vars

\* C26 witness: two sentences that completed behind the invocation of an
\* earlier sentence have gone together to the second invocation.
C26_Witness ==
    /\ Len(tasks) >= 2
    /\ tasks[1].query = <<"b", ".">>
    /\ tasks[2].query = <<"c", ",", " ", "d", "!">>
    /\ tasks[2].site # "flush"

\* the text after the last boundary character
AfterLastBoundary(s) ==
    LET idx == {i \in DOMAIN s : s[i] \in Boundary}
    IN  IF idx = {} THEN s
        ELSE SubSeq(s, (CHOOSE i \in idx : \A j \in idx : j <= i) + 1, Len(s))

\* C27: there is at most one flush invocation; it was started after the
\* marker, with every earlier invocation completed and every emitted sentence
\* dispatched, it is the last invocation and its query is non-blank text
\* without a boundary character; and when the loop has returned the buffer
\* is empty and what was flushed is the text fed after the last boundary
\* character (nothing when there was none).
C27_FlushOnceAtEnd ==
    /\ Cardinality({t \in DOMAIN tasks : tasks[t].site = "flush"}) <= 1
    /\ \A t \in DOMAIN tasks :
          tasks[t].site = "flush" =>
              /\ finished
              /\ t = Len(tasks)
              /\ \A u \in 1..(t - 1) : Done(tasks[u])
              /\ pending = <<>> /\ buffer = <<>>
              /\ SpaceJoined(BatchQueries) = SpaceJoined(emitted)
              /\ NoWS(tasks[t].query) # <<>>
              /\ NumBoundaries(tasks[t].query) = 0
    /\ loopPc = "returned" =>
          /\ buffer = <<>>
          /\ NoWS(Flushed) = NoWS(AfterLastBoundary(Flat(taken)))

\* C27 witness: the loop has returned after flushing the text that followed
\* the sentence of an earlier invocation.
C27_Witness ==
    /\ loopPc = "returned"
    /\ Len(tasks) >= 2
    /\ tasks[Len(tasks)].site = "flush"

\* a reply that parses as a tool call naming no stop tool
NonStopCall(r) ==
    /\ r.form = "call"
    /\ r.args # "notdict"
    /\ r.name \notin {"done", "wait_for_more"}

\* C28: after a reply that is a tool call of a non-stop tool, run_agent has
\* not raised; the conversation ends with the assistant turn of the (trimmed)
\* reply followed by one user turn naming the tool and its result, the result
\* being an error string when the tool is unknown or its arguments do not
\* fit; and either the next completion call is under way with both turns in
\* its input, or the turn cap is reached and the list is returned.
C28_ToolResultFedBack ==
    \A t \in DOMAIN tasks :
        NonStopCall(tasks[t].last) =>
            LET r == tasks[t].last
                n == Len(messages)
            IN  /\ tasks[t].pc \in {"llm", "returned"}
                /\ n >= 2
                /\ messages[n - 1] = AssistantTurn(Trim(r))
                /\ messages[n].role = "user"
                /\ messages[n].content.k = "result"
                /\ messages[n].content.tool = r.name
                /\ messages[n].content.result # "RAISE"
                /\ r.name \notin TOOLS =>
                      messages[n].content.result = "Error: unknown tool"
                /\ (r.name \in TOOLS /\ r.args = "bogus") =>
                      messages[n].content.result = "Error: wrong arguments"
                /\ tasks[t].pc = "llm" => tasks[t].input = messages
                /\ tasks[t].pc = "returned" => tasks[t].turn = MAX_TURNS

\* a reply that is None or nothing but whitespace
BlankReply(r) == r.form = "none" \/ (r.form = "text" /\ ~r.body)

\* C29: after a reply that is None or empty once trimmed, run_agent has
\* returned; the list it returns is the list it passed to that completion call
\* (no assistant turn was appended) and ends with a user turn, and the
\* invocation has called speak not once.
C29_EmptyReplyStops ==
    \A t \in DOMAIN tasks :
        BlankReply(tasks[t].last) =>
            /\ tasks[t].pc = "returned"
            /\ tasks[t].result = tasks[t].input
            /\ tasks[t].result # <<>>
            /\ tasks[t].result[Len(tasks[t].result)].role = "user"
            /\ CallsBy(t) = {}

\* C29 witness: an invocation has returned on a whitespace-only reply that
\* followed a tool result.
C29_Witness ==
    \E t \in DOMAIN tasks :
        /\ tasks[t].last = Reply("text", FALSE, TRUE, "-", "-")
        /\ tasks[t].pc = "returned"
        /\ tasks[t].ncomp > 1
        /\ tasks[t].result[Len(tasks[t].result)].content.k = "result"

\* the batch texts of the user turns of the conversation, in order
UserBatches ==
    LET sel == SelectSeq(messages,
                         LAMBDA m : m.role = "user" /\ m.content.k = "batch")
    IN  [i \in 1..Len(sel) |-> sel[i].content.text]

\* the queries of the invocations whose body has been entered, in order
StartedQueries ==
    LET sel == SelectSeq(tasks, LAMBDA task : task.pc # "created")
    IN  [i \in 1..Len(sel) |-> sel[i].query]

\* C30: the batch user turns of the conversation are, in order, the queries
\* of the invocations started; the batches dispatched, joined in order, are
\* the emitted sentences in emission order up to those still pending (so no
\* sentence is in two batches); the pending batch is the rest of the emitted
\* sentences; the emitted sentences follow the order of the fragments; and
\* the flush, if any, comes last.
C30_ArrivalOrder ==
    /\ UserBatches = StartedQueries
    /\ \A t \in DOMAIN tasks :
          tasks[t].pc = "created" => t = Len(tasks)
    /\ Len(pending) <= Len(emitted)
    /\ pending = SubSeq(emitted, Len(emitted) - Len(pending) + 1, Len(emitted))
    /\ SpaceJoined(BatchQueries)
         = SpaceJoined(SubSeq(emitted, 1, Len(emitted) - Len(pending)))
    /\ IsPrefix(NoWS(Flat(emitted)), NoWS(Flat(taken)))
    /\ \A t \in DOMAIN tasks : tasks[t].site = "flush" => t = Len(tasks)

\* C30 witness: the conversation holds two batch user turns, the sentence of
\* the first fragment and then the two sentences that arrived behind it.
C30_Witness ==
    /\ Len(UserBatches) = 2
    /\ UserBatches[1] = <<"b", ".">>
    /\ UserBatches[2] = <<"c", ",", " ", "d", "!">>

\* C31: the aggregator emits no sentence while the text it was fed holds no
\* boundary character, and no emitted sentence is a boundary character alone.
C31_NoStrayDelimiter ==
    /\ NumBoundaries(Flat(taken)) = 0 => emitted = <<>>
    /\ \A i \in DOMAIN emitted : Letters(emitted[i]) # <<>>

\* C32: a step in which a read of the receive loop times out leaves the
\* bridge running, both queues, the socket and the iterator as they were, the
\* iterator unable to end, and the receive task at the head of its loop,
\* about to read again.
C32_TimeoutIsNoData ==
    [][(bridge.lastRecv # "timeout" /\ bridge'.lastRecv = "timeout") =>
         /\ bridge.running /\ bridge'.running
         /\ bridge'.text_queue = bridge.text_queue
         /\ bridge'.enqueued = bridge.enqueued
         /\ bridge'.socket = bridge.socket
         /\ bridge'.consumer = bridge.consumer
         /\ ~MayEnd(bridge'.running, bridge'.text_queue)
         /\ \E i \in DOMAIN bridge.recv :
               bridge.recv[i] = "run" /\ bridge'.recv = bridge.recv]_vars

\* C32 witness: the last read timed out after an earlier one brought a
\* fragment; the iterator is still iterating and the receive task runs.
C32_Witness ==
    /\ bridge.lastRecv = "timeout"
    /\ bridge.nrecv >= 1
    /\ bridge.consumer = "iterating"
    /\ bridge.running
    /\ bridge.recv # <<>> /\ bridge.recv[Len(bridge.recv)] = "run"

\* C33: a speak call that has returned has had the playback of its utterance
\* started (it is playing or has been played); and with the local sink the
\* speaking state lasts while a returned call's audio is playing or its
\* watcher has not yet seen the end.
C33_ReturnsAfterPlaybackStarted ==
    /\ \A c \in DOMAIN calls :
          calls[c].pc = "returned" => c \in playing \cup played
    /\ sinkKind = "local" =>
          \A c \in DOMAIN calls :
              (calls[c].pc = "returned" /\ c \in playing \cup watchers) =>
                  is_speaking

Silence(buf) == \A i \in DOMAIN buf : buf[i] = 0

\* C34 as stated: 48 kHz stereo input of L samples gives exactly L/2/3 mono
\* samples for every L, silence gives silence, the empty buffer the empty
\* buffer.
C34_LengthIsSixth ==
    conv.done =>
        /\ Len(conv.out) = (Len(conv.pcm) \div 2) \div 3
        /\ Silence(conv.pcm) => Silence(conv.out)
        /\ conv.pcm = <<>> => conv.out = <<>>

\* C34 amended: L samples are floor(L/2) frames and every third frame is
\* kept, the first of a last incomplete group included: ceil(floor(L/2)/3)
\* samples, which is L/2/3 when L is a multiple of 6; silence gives silence
\* and the empty buffer the empty buffer.
C34_LengthIsFramesOverThreeRoundedUp ==
    conv.done =>
        /\ Len(conv.out) = ((Len(conv.pcm) \div 2) + 2) \div 3
        /\ Len(conv.pcm) % 6 = 0 => Len(conv.out) * 6 = Len(conv.pcm)
        /\ Silence(conv.pcm) => Silence(conv.out)
        /\ conv.pcm = <<>> => conv.out = <<>>

\* C34 witness: a silent buffer of four samples (two frames) has been
\* converted to one sample and submitted to the bridge.
C34_Witness ==
    /\ conv.done
    /\ Len(conv.pcm) = 4 /\ Silence(conv.pcm)
    /\ conv.out = <<0>>
    /\ bridge.lastSubmit = "queued"

\* a speak call that has been invoked and has neither returned nor raised
ActiveCall(c) == calls[c].pc \notin {"returned", "raised"}

\* C35: in the pipeline at most one speak call is active, and when a speak
\* call exists every earlier one has returned or raised.
C35_OneSpeakActive ==
    /\ Cardinality({c \in DOMAIN calls : ActiveCall(c)}) <= 1
    /\ \A c1, c2 \in DOMAIN calls : c1 < c2 => ~ActiveCall(c1)

\* C35 witness: the speak call of a second batch is active, that of the
\* first batch has returned and its audio is still playing.
C35_Witness ==
    \E c1, c2 \in DOMAIN calls :
        /\ c1 < c2
        /\ calls[c1].by # calls[c2].by
        /\ calls[c1].pc = "returned"
        /\ c1 \in playing
        /\ ActiveCall(c2)

\* the tasks of a list that have not ended
Running(ts) == {i \in DOMAIN ts : ts[i] = "run"}

\* C36: at most one send task and at most one receive task of the Discord
\* bridge are active.
C36_OneTaskOfEachKind ==
    bridge.kind = "discord" =>
        /\ Cardinality(Running(bridge.send)) <= 1
        /\ Cardinality(Running(bridge.recv)) <= 1

\* C37: an invocation started before the marker (site "batch") carries a
\* batch ending in a boundary character, and there are no more batch
\* invocations than boundary characters received; before the marker no other
\* invocation exists; a query without a boundary character is that of the
\* flush; and while no boundary character has been received and the marker
\* has not come, no invocation exists and the buffer holds all the text
\* received.
C37_NoBoundaryNoDispatch ==
    /\ \A t \in DOMAIN tasks :
          /\ tasks[t].site = "batch" =>
                /\ tasks[t].query # <<>>
                /\ tasks[t].query[Len(tasks[t].query)] \in Boundary
          /\ NumBoundaries(tasks[t].query) = 0 => tasks[t].site = "flush"
          /\ ~finished => tasks[t].site = "batch"
    /\ Len(SelectSeq(tasks, IsBatch)) <= NumBoundaries(Flat(taken))
    /\ (~finished /\ NumBoundaries(Flat(taken)) = 0) =>
          /\ tasks = <<>> /\ pending = <<>>
          /\ NoWS(buffer) = NoWS(Flat(taken))

\* C37 witness: two fragments without a boundary character were received,
\* nothing was dispatched before the marker, and the loop has returned after
\* the flush dispatched their text.
C37_Witness ==
    /\ loopPc = "returned"
    /\ Len(taken) = 2
    /\ NumBoundaries(Flat(taken)) = 0
    /\ Len(tasks) = 1
    /\ tasks[1].site = "flush"
    /\ NoWS(tasks[1].query) = NoWS(Flat(taken))

\* the calls that have passed the guard of tts.speak and whose playback has
\* not completed: awaiting the synthesis reply, or playing
PastGuard == {c \in DOMAIN calls : calls[c].pc = "recv" \/ c \in playing}

\* C38: with several tts.speak calls pending at once, at most one call is
\* between passing the is_speaking guard and the completion of its playback;
\* the flag is set while one is, and no call sends its request while the
\* reply to another is outstanding.
C38_OnePastGuard ==
    /\ Cardinality(PastGuard) <= 1
    /\ PastGuard # {} => is_speaking
    /\ \A c \in DOMAIN calls : calls[c].sent # "refused"

\* C38 witness: three calls are pending or done: the playback of one has
\* completed, another has passed the guard and a third waits at the guard.
C38_Witness ==
    \E c1, c2, c3 \in DOMAIN calls :
        /\ c1 \in played
        /\ calls[c2].pc = "recv"
        /\ calls[c3].pc = "guard"
        /\ c3 < c2

====
